---------------------------- MODULE Spec2Model ----------------------------
(***************************************************************************)
(* Operations Optimization Engine of Barnameh:                             *)
(*   ResourceOptimizer   (packages/optimization-engine/resource_optimizer) *)
(*   SchedulingOptimizer (packages/optimization-engine/scheduling_optimizer)*)
(*   CapacityPlanner     (packages/optimization-engine/capacity_planner)   *)
(*                                                                         *)
(* Each optimizer instance is a catalog filled by add-style registration   *)
(* and a call (optimize / plan_capacity) that computes a result from the   *)
(* catalog and its arguments.  The state holds the catalogs, the arguments *)
(* of the last call and the result (or the exception) of the last call.    *)
(*                                                                         *)
(* Numbers.  The Python code computes on floats.  The model computes on    *)
(* integers in fixed units, chosen so that every value the model draws is  *)
(* exactly representable and round(x, 2) is the identity on it:            *)
(*   - availability is counted in 1/Scale (halves: 0.0, 0.5, 1.0);         *)
(*   - hours and money of the resource optimizer are counted in 1/Scale of *)
(*     an hour (of a currency unit);                                       *)
(*   - percentages are counted in 1/100 of a percent (what round(p, 2)     *)
(*     keeps), rounded half-to-even as Python's round does.                *)
(***************************************************************************)
EXTENDS Integers, Sequences, FiniteSets, TLC

VARIABLES
    PULP_AVAILABLE,   \* resource_optimizer.py module global (import succeeded)
    resources,        \* ResourceOptimizer.resources
    tasks,            \* ResourceOptimizer.tasks
    ro_args,          \* arguments of the last ResourceOptimizer.optimize call
    ro_result,        \* what that call returned (or that it raised)
    employees,        \* SchedulingOptimizer.employees
    requirements,     \* SchedulingOptimizer.requirements
    so_args,          \* arguments of the last SchedulingOptimizer.optimize call
    so_result,        \* what that call returned (or that it raised)
    current_capacity, \* CapacityPlanner.current_capacity
    demand_history,   \* CapacityPlanner.demand_history
    cp_args,          \* arguments of the last CapacityPlanner.plan_capacity call
    cp_result         \* what that call returned (or that it raised)

ro_vars == <<PULP_AVAILABLE, resources, tasks, ro_args, ro_result>>
so_vars == <<employees, requirements, so_args, so_result>>
cp_vars == <<current_capacity, demand_history, cp_args, cp_result>>
vars == <<ro_vars, so_vars, cp_vars>>

----------------------------------------------------------------------------
(* Bounds of the model *)

MaxCapacity == 2
MaxDuration == 2
MaxForecast == 2
MaxHorizon == 2
MaxSolverVars == 2
MaxSlot == 1
MaxShiftDuration == 2
MaxHoursPerWeek == 3
MaxRequiredCount == 2
MaxCurrentCapacity == 10
MaxForecasts == 4
MaxHistory == 4
MaxRoster == 7

\* ids handed out in registration order; their number bounds the catalogs
ResourceIdSeq == <<"r1", "r2">>
TaskIdSeq == <<"t1", "t2">>
Products == {"p1", "p2"}
Costs == {1, 2}
Priorities == {1, 2}
RequiredQuantities == {2}
\* availability in 1/Scale: 0.0, 0.5, 1.0
Availabilities == {0, 1, 2}
Scale == Cardinality(Availabilities) - 1
EmployeeIdSeq == <<"e1", "e2">>
MaxRequirements == Len(EmployeeIdSeq)
Roles == {"operator", "packer"}
SkillSets == {{"operator"}, {"operator", "packer"}}
Slots == 0..MaxSlot
AvailabilitySets == {Slots, {0}}
HoursPerWeek == {0, 1, MaxHoursPerWeek}
RequiredCounts == {1, MaxRequiredCount}
ShiftDurations == {1, MaxShiftDuration}
\* time_horizon_hours of the scheduler: the default (a week) and a short one
ScheduleHorizons == {MaxSlot + 1, 168}
\* predicted quantities of the capacity planner: a negative one, one that
\* uses 90% of MaxCurrentCapacity, one above it
PredictedQuantities == {-3, 9, 12}
\* a forecast dict with and without the key predicted_quantity
ForecastEntries == {<<>>} \cup [predicted_quantity : PredictedQuantities]
CurrentCapacities == {0, MaxCurrentCapacity - 1, MaxCurrentCapacity}
\* target_utilization, in percent
TargetUtilizations == {85, 100}
RevenuesPerUnit == {0, 100}
PlanningHorizons == {0, 2, 12}
\* (date, demand) points of the demand history
HistoryPoints == {<<1, 1>>, <<1, 2>>, <<2, 2>>}
\* forecast quantities: a negative one, zero, positive ones
Quantities == {-1, 0, 1, MaxForecast}
Capacities == {0, MaxCapacity}
Durations == {1, MaxDuration}
Horizons == {1, MaxHorizon}

----------------------------------------------------------------------------
(* Helpers shared by the optimizers *)

Min2(a, b) == IF a <= b THEN a ELSE b
Max2(a, b) == IF a >= b THEN a ELSE b
Abs(a) == IF a >= 0 THEN a ELSE -a

RECURSIVE SumSeq(_)
SumSeq(s) == IF s = <<>> THEN 0 ELSE Head(s) + SumSeq(Tail(s))

RECURSIVE SelectIdx(_, _)
\* indices idxs of keys in ascending key order, equal keys in index order
\* (Python's sorted is stable; reverse=True keeps equal elements in order,
\* i.e. it is the stable ascending sort on the negated key)
SelectIdx(keys, idxs) ==
    IF idxs = {} THEN <<>>
    ELSE LET i == CHOOSE i \in idxs :
                    \A j \in idxs : keys[i] < keys[j] \/ (keys[i] = keys[j] /\ i <= j)
         IN <<i>> \o SelectIdx(keys, idxs \ {i})

StableSortAsc(seq, keys) ==
    LET order == SelectIdx(keys, DOMAIN seq)
    IN [k \in DOMAIN seq |-> seq[order[k]]]

\* round(num / den) to the nearest integer, ties to even (den > 0)
RoundHalfEven(num, den) ==
    LET q == num \div den
        r == num - q * den
    IN IF 2 * r > den THEN q + 1
       ELSE IF 2 * r < den THEN q
       ELSE IF q % 2 = 0 THEN q ELSE q + 1

\* round(num / den * 100, 2), in 1/100 of a percent
Percent(num, den) == RoundHalfEven(num * 10000, den)

RECURSIVE Gcd(_, _)
Gcd(a, b) == IF b = 0 THEN a ELSE Gcd(b, a % b)

\* Percent(a * b, den) for a, b >= 0, den > 0, with the common factors of
\* the fraction cancelled before multiplying (TLC's integers are 32-bit)
PercentOfProduct(a, b, den) ==
    LET g1 == Gcd(a, den)
        g2 == Gcd(b, den \div g1)
        g3 == Gcd(10000, (den \div g1) \div g2)
    IN RoundHalfEven((a \div g1) * (b \div g2) * (10000 \div g3),
                     ((den \div g1) \div g2) \div g3)

----------------------------------------------------------------------------
(* ResourceOptimizer *)

\* forecasted_demand.get(product_id, 0)
Forecasted(forecasted_demand, product_id) ==
    IF product_id \in DOMAIN forecasted_demand THEN forecasted_demand[product_id] ELSE 0

\* r.capacity * r.availability * time_horizon_hours, in 1/Scale hours
CapacityHours(r, time_horizon_hours) == r.capacity * r.availability * time_horizon_hours

\* the priority order gone through twice
SortedTasks_Twice(ts) ==
    StableSortAsc(ts, [i \in DOMAIN ts |-> -ts[i].priority])
       \o StableSortAsc(ts, [i \in DOMAIN ts |-> -ts[i].priority])

\* sorted(self.tasks, key=lambda t: t.priority, reverse=True)
SortedTasks(ts) == StableSortAsc(ts, [i \in DOMAIN ts |-> -ts[i].priority])

\* sorted(self.resources, key=lambda r: r.cost_per_hour)
SortedResources(rs) == StableSortAsc(rs, [i \in DOMAIN rs |-> rs[i].cost_per_hour])

\* the task is served by the greedy loop (the negation of its `continue`)
GreedyServes(forecasted) == ~(forecasted = 0)

\* the last resource in cost order with remaining capacity >= duration_hours
BestResource_Costliest(rs, remaining_capacity, task) ==
    LET sorted == SortedResources(rs)
        ok == {k \in DOMAIN sorted :
                 remaining_capacity[sorted[k].resource_id] >= Scale * task.duration_hours}
    IN IF ok = {} THEN 0 ELSE CHOOSE k \in ok : \A j \in ok : k >= j

\* first resource in cost order with remaining capacity >= duration_hours:
\* its position in the cost order, 0 when there is none (best_resource = None)
BestResource(rs, remaining_capacity, task) ==
    LET sorted == SortedResources(rs)
        ok == {k \in DOMAIN sorted :
                 remaining_capacity[sorted[k].resource_id] >= Scale * task.duration_hours}
    IN IF ok = {} THEN 0 ELSE CHOOSE k \in ok : \A j \in ok : k <= j

\* the allocation without the cap at the remaining capacity
AllocatedHours_Uncapped(task, forecasted, remaining) ==
    Scale * task.duration_hours * forecasted

\* min(task.duration_hours * forecasted, remaining_capacity[best])
AllocatedHours(task, forecasted, remaining) ==
    Min2(Scale * task.duration_hours * forecasted, remaining)

Assignment(task, r, allocated_hours) ==
    [task_id |-> task.task_id, product_id |-> task.product_id,
     resource_id |-> r.resource_id,
     allocated_hours |-> allocated_hours,
     cost |-> allocated_hours * r.cost_per_hour]

RECURSIVE GreedyLoop(_, _, _, _, _)
\* the `for task in sorted_tasks` loop from task ts[k] on; st holds the
\* assignments made so far, remaining_capacity, and the lowest value any
\* remaining_capacity entry has had (low_water)
GreedyLoop(rs, ts, k, forecasted_demand, st) ==
    IF k > Len(ts) THEN st
    ELSE LET task == ts[k]
             forecasted == Forecasted(forecasted_demand, task.product_id)
             b == BestResource(rs, st.remaining_capacity, task)
         IN IF ~GreedyServes(forecasted) \/ b = 0
            THEN GreedyLoop(rs, ts, k + 1, forecasted_demand, st)
            ELSE LET best == SortedResources(rs)[b]
                     hours == AllocatedHours(task, forecasted,
                                             st.remaining_capacity[best.resource_id])
                 IN GreedyLoop(rs, ts, k + 1, forecasted_demand,
                        [assignments |-> Append(st.assignments, Assignment(task, best, hours)),
                         remaining_capacity |->
                             [st.remaining_capacity EXCEPT ![best.resource_id] = @ - hours],
                         low_water |-> Min2(st.low_water,
                                            st.remaining_capacity[best.resource_id] - hours)])

ResourceIds(rs) == {rs[i].resource_id : i \in DOMAIN rs}
ResourceById(rs, id) == rs[CHOOSE i \in DOMAIN rs : rs[i].resource_id = id]

Greedy(rs, ts, forecasted_demand, time_horizon_hours) ==
    GreedyLoop(rs, SortedTasks(ts), 1, forecasted_demand,
        [assignments |-> <<>>,
         remaining_capacity |->
             [id \in ResourceIds(rs) |->
                 CapacityHours(ResourceById(rs, id), time_horizon_hours)],
         low_water |-> 0])

\* denominator of the greedy path's utilization
GreedyUtilDen(r, time_horizon_hours) == CapacityHours(r, time_horizon_hours)

\* denominator of the solver path's utilization: capacity * time_horizon_hours
SolverUtilDen(r, time_horizon_hours) == Scale * r.capacity * time_horizon_hours

----------------------------------------------------------------------------
(* _generate_recommendations of the resource optimizer: one record per    *)
(* message, in the order the code appends them                             *)

RECURSIVE UtilRecs(_, _, _)
UtilRecs(rs, utilization, k) ==
    IF k > Len(rs) THEN <<>>
    ELSE LET id == rs[k].resource_id
             util == utilization[id]
             here == IF util > 9000 THEN <<[kind |-> "over_utilized", subject |-> id]>>
                     ELSE IF util < 5000 THEN <<[kind |-> "under_utilized", subject |-> id]>>
                     ELSE <<>>
         IN here \o UtilRecs(rs, utilization, k + 1)

\* the order in which forecasted_demand.items() yields the products
ProductOrder == <<"p1", "p2">>

\* `demand > 0` read as `demand != 0`, the test the greedy loop uses
UnmetDemand_NonZero(assigned_products, forecasted_demand, p) ==
    /\ p \in DOMAIN forecasted_demand
    /\ p \notin assigned_products
    /\ forecasted_demand[p] # 0

\* `if product_id not in assigned_products and demand > 0`, for the items
\* of forecasted_demand
UnmetDemand(assigned_products, forecasted_demand, p) ==
    /\ p \in DOMAIN forecasted_demand
    /\ p \notin assigned_products
    /\ forecasted_demand[p] > 0

RECURSIVE UnmetRecs(_, _, _)
UnmetRecs(assignments, forecasted_demand, k) ==
    IF k > Len(ProductOrder) THEN <<>>
    ELSE LET p == ProductOrder[k]
             assigned_products == {assignments[i].product_id : i \in DOMAIN assignments}
             here == IF UnmetDemand(assigned_products, forecasted_demand, p)
                     THEN <<[kind |-> "unmet_demand", subject |-> p]>>
                     ELSE <<>>
         IN here \o UnmetRecs(assignments, forecasted_demand, k + 1)

\* a['cost'] > avg_cost * 1.5 with avg_cost = total_cost / len(assignments)
HighCostRecs(assignments) ==
    IF assignments = <<>> THEN <<>>
    ELSE LET total_cost == SumSeq([i \in DOMAIN assignments |-> assignments[i].cost])
             high == {i \in DOMAIN assignments :
                        2 * Len(assignments) * assignments[i].cost > 3 * total_cost}
         IN IF high = {} THEN <<>>
            ELSE <<[kind |-> "high_cost", subject |-> Cardinality(high)]>>

ResourceRecommendations(rs, assignments, utilization, forecasted_demand) ==
    LET recs == UtilRecs(rs, utilization, 1)
                \o UnmetRecs(assignments, forecasted_demand, 1)
                \o HighCostRecs(assignments)
    IN IF recs = <<>> THEN <<[kind |-> "optimal", subject |-> 0]>> ELSE recs

----------------------------------------------------------------------------
(* results *)

NoResult ==
    [status |-> "none", path |-> "none", success |-> FALSE, objective_value |-> 0,
     assignments |-> <<>>, utilization |-> <<>>, recommendations |-> <<>>,
     low_water |-> 0, remaining_capacity |-> <<>>]

Raised(path) == [NoResult EXCEPT !.status = "raised", !.path = path]

\* ResourceOptimizer._simple_optimization
SimpleOptimization(rs, ts, forecasted_demand, time_horizon_hours) ==
    LET g == Greedy(rs, ts, forecasted_demand, time_horizon_hours)
        zero == \E i \in DOMAIN rs : GreedyUtilDen(rs[i], time_horizon_hours) = 0
    IN IF zero THEN Raised("greedy")
       ELSE LET utilization ==
                    [id \in ResourceIds(rs) |->
                        LET r == ResourceById(rs, id)
                            used == CapacityHours(r, time_horizon_hours)
                                    - g.remaining_capacity[id]
                        IN Percent(used, GreedyUtilDen(r, time_horizon_hours))]
            IN [status |-> "returned", path |-> "greedy", success |-> TRUE,
                objective_value |->
                    SumSeq([i \in DOMAIN g.assignments |-> g.assignments[i].allocated_hours]),
                assignments |-> g.assignments,
                utilization |-> utilization,
                recommendations |->
                    ResourceRecommendations(rs, g.assignments, utilization, forecasted_demand),
                low_water |-> g.low_water,
                remaining_capacity |-> g.remaining_capacity]

----------------------------------------------------------------------------
(* the solver path of ResourceOptimizer.optimize.  x[t][r] is the value of *)
(* the decision variable of task t (position in self.tasks) and resource r *)
(* (position in self.resources), in 1/Scale hours.                         *)

\* upBound = resource.capacity * resource.availability
VarUpBound(r) == r.capacity * r.availability

MaxUpBound(rs) ==
    IF rs = <<>> THEN 0
    ELSE CHOOSE m \in {VarUpBound(rs[i]) : i \in DOMAIN rs} :
             \A i \in DOMAIN rs : VarUpBound(rs[i]) <= m

\* the values within the variables' bounds (lowBound = 0, upBound)
SolverBox(rs, ts) ==
    {x \in [DOMAIN ts -> [DOMAIN rs -> 0..MaxUpBound(rs)]] :
        \A t \in DOMAIN ts : \A r \in DOMAIN rs : x[t][r] <= VarUpBound(rs[r])}

\* 1. Resource capacity constraints
CapacityRows(rs, ts, x, time_horizon_hours) ==
    \A r \in DOMAIN rs :
        SumSeq([t \in DOMAIN ts |-> x[t][r]]) <= CapacityHours(rs[r], time_horizon_hours)

\* 2. Task completion constraints, only for forecasted > 0
DemandRows(rs, ts, x, forecasted_demand) ==
    \A t \in DOMAIN ts :
        LET forecasted == Forecasted(forecasted_demand, ts[t].product_id)
        IN forecasted > 0 =>
              SumSeq([r \in DOMAIN rs |-> x[t][r]])
                 >= Scale * ts[t].duration_hours * Min2(forecasted, ts[t].required_quantity)

\* the objective: total cost, or throughput weighted by priority
Objective(rs, ts, x, minimize_cost) ==
    SumSeq([t \in DOMAIN ts |->
        SumSeq([r \in DOMAIN rs |->
            x[t][r] * (IF minimize_cost THEN rs[r].cost_per_hour ELSE ts[t].priority)])])

Feasible(rs, ts, forecasted_demand, time_horizon_hours) ==
    {x \in SolverBox(rs, ts) :
        /\ CapacityRows(rs, ts, x, time_horizon_hours)
        /\ DemandRows(rs, ts, x, forecasted_demand)}

\* problem.solve(): the status and the variable values it leaves.  With a
\* feasible problem the status is Optimal and the values are an optimal
\* point.  With an infeasible one the status is not Optimal and the values
\* the solver leaves are not specified by the code: any values within the
\* variables' bounds, the rows not necessarily satisfied.
Solve(rs, ts, forecasted_demand, time_horizon_hours, minimize_cost) ==
    LET feasible == Feasible(rs, ts, forecasted_demand, time_horizon_hours)
        values == {Objective(rs, ts, x, minimize_cost) : x \in feasible}
        best == CHOOSE v \in values :
                    \A w \in values : IF minimize_cost THEN v <= w ELSE v >= w
    IN IF feasible # {}
       THEN {[status |-> "Optimal", x |-> x] :
                x \in {y \in feasible : Objective(rs, ts, y, minimize_cost) = best}}
       ELSE {[status |-> "Infeasible", x |-> x] : x \in SolverBox(rs, ts)}

RECURSIVE ExtractAssignments(_, _, _, _, _)
\* `for resource in self.resources: for task in self.tasks:` keeping the
\* variables with allocated_hours > 0
ExtractAssignments(rs, ts, x, r, t) ==
    IF r > Len(rs) THEN <<>>
    ELSE IF t > Len(ts) THEN ExtractAssignments(rs, ts, x, r + 1, 1)
    ELSE (IF x[t][r] > 0 THEN <<Assignment(ts[t], rs[r], x[t][r])>> ELSE <<>>)
         \o ExtractAssignments(rs, ts, x, r, t + 1)

\* the part of optimize after problem.solve(), for one solver outcome
SolverResult(rs, ts, forecasted_demand, time_horizon_hours, minimize_cost, sol) ==
    LET zero == \E i \in DOMAIN rs : SolverUtilDen(rs[i], time_horizon_hours) = 0
    IN IF zero THEN Raised("solver")
       ELSE LET assignments == ExtractAssignments(rs, ts, sol.x, 1, 1)
                utilization ==
                    [id \in ResourceIds(rs) |->
                        LET r == CHOOSE i \in DOMAIN rs : rs[i].resource_id = id
                            total_hours == SumSeq([t \in DOMAIN ts |-> sol.x[t][r]])
                        IN Percent(total_hours, SolverUtilDen(rs[r], time_horizon_hours))]
            IN [status |-> "returned", path |-> "solver",
                success |-> (sol.status = "Optimal"),
                objective_value |-> Objective(rs, ts, sol.x, minimize_cost),
                assignments |-> assignments,
                utilization |-> utilization,
                recommendations |->
                    ResourceRecommendations(rs, assignments, utilization, forecasted_demand),
                low_water |-> 0, remaining_capacity |-> <<>>]

----------------------------------------------------------------------------
(* SchedulingOptimizer *)

\* a number above every time_slot, to hold the pair (priority, time_slot)
\* in one integer key
SlotRadix == Max2(MaxSlot, MaxRoster) + 1

\* the requirements sorted by (priority, time_slot) ascending
SortedRequirements_Ascending(reqs) ==
    StableSortAsc(reqs, [i \in DOMAIN reqs |->
                            reqs[i].priority * SlotRadix + reqs[i].time_slot])

\* sorted(self.requirements, key=lambda r: (r.priority, r.time_slot), reverse=True)
SortedRequirements(reqs) ==
    StableSortAsc(reqs, [i \in DOMAIN reqs |->
                            -(reqs[i].priority * SlotRadix + reqs[i].time_slot)])

\* the employees sorted by ascending cost whatever minimize_cost says
SortedEmployees_CheapestFirst(emps, minimize_cost) ==
    StableSortAsc(emps, [i \in DOMAIN emps |-> emps[i].cost_per_hour])

\* sorted(self.employees, key=cost_per_hour if minimize_cost else -cost_per_hour)
SortedEmployees(emps, minimize_cost) ==
    StableSortAsc(emps, [i \in DOMAIN emps |->
                            IF minimize_cost THEN emps[i].cost_per_hour
                            ELSE -emps[i].cost_per_hour])

\* the max-hours check without the shift about to be assigned
OverMaxHours_NoShift(hours, shift_duration, employee) ==
    hours > employee.max_hours_per_week

\* employee_hours[id] + shift_duration > employee.max_hours_per_week
OverMaxHours(hours, shift_duration, employee) ==
    hours + shift_duration > employee.max_hours_per_week

\* the shift-conflict scan with a window one slot too short
Conflict_OffByOne(shifts, employee, req, shift_duration) ==
    \E i \in DOMAIN shifts :
        /\ shifts[i].employee_id = employee.employee_id
        /\ Abs(shifts[i].time_slot - req.time_slot) < shift_duration - 1

\* the shift-conflict scan over the shifts assigned so far
Conflict(shifts, employee, req, shift_duration) ==
    \E i \in DOMAIN shifts :
        /\ shifts[i].employee_id = employee.employee_id
        /\ Abs(shifts[i].time_slot - req.time_slot) < shift_duration

\* the four checks that lead to `continue`
Eligible(st, employee, req, shift_duration) ==
    /\ req.role \in employee.skills
    /\ req.time_slot \in employee.availability
    /\ ~OverMaxHours(st.employee_hours[employee.employee_id], shift_duration, employee)
    /\ ~Conflict(st.shifts, employee, req, shift_duration)

\* range(req.time_slot, req.time_slot + shift_duration)
Window(time_slot, length) == time_slot .. (time_slot + length - 1)

\* coverage.get(hour, 0)
CoverageGet(coverage, hour) == IF hour \in DOMAIN coverage THEN coverage[hour] ELSE 0

\* the coverage update counting the shift at its first hour only
Cover_SlotOnly(coverage, time_slot, shift_duration) ==
    [hour \in DOMAIN coverage \cup {time_slot} |->
        CoverageGet(coverage, hour) + (IF hour = time_slot THEN 1 ELSE 0)]

\* coverage[hour] = coverage.get(hour, 0) + 1 for the hours of the window
Cover(coverage, time_slot, shift_duration) ==
    [hour \in DOMAIN coverage \cup Window(time_slot, shift_duration) |->
        CoverageGet(coverage, hour)
           + (IF hour \in Window(time_slot, shift_duration) THEN 1 ELSE 0)]

\* the assignment with the shift priced at one hour
AssignShift_HourlyCost(st, employee, req, shift_duration) ==
    [shifts |-> Append(st.shifts,
                   [employee_id |-> employee.employee_id, time_slot |-> req.time_slot,
                    duration_hours |-> shift_duration, role |-> req.role,
                    cost |-> employee.cost_per_hour]),
     employee_hours |->
         [st.employee_hours EXCEPT ![employee.employee_id] = @ + shift_duration],
     coverage |-> Cover(st.coverage, req.time_slot, shift_duration)]

\* Shift(...), shifts.append, employee_hours += shift_duration, coverage update
AssignShift(st, employee, req, shift_duration) ==
    [shifts |-> Append(st.shifts,
                   [employee_id |-> employee.employee_id, time_slot |-> req.time_slot,
                    duration_hours |-> shift_duration, role |-> req.role,
                    cost |-> shift_duration * employee.cost_per_hour]),
     employee_hours |->
         [st.employee_hours EXCEPT ![employee.employee_id] = @ + shift_duration],
     coverage |-> Cover(st.coverage, req.time_slot, shift_duration)]

RECURSIVE EmployeeLoop(_, _, _, _, _, _)
\* `for employee in sorted_employees` for one requirement, from employee j
EmployeeLoop(req, emps, j, assigned_count, shift_duration, st) ==
    IF j > Len(emps) \/ assigned_count >= req.required_count THEN st
    ELSE IF Eligible(st, emps[j], req, shift_duration)
         THEN EmployeeLoop(req, emps, j + 1, assigned_count + 1, shift_duration,
                           AssignShift(st, emps[j], req, shift_duration))
         ELSE EmployeeLoop(req, emps, j + 1, assigned_count, shift_duration, st)

RECURSIVE RequirementLoop(_, _, _, _, _)
\* `for req in sorted_requirements`, from requirement k
RequirementLoop(reqs, emps, k, shift_duration, st) ==
    IF k > Len(reqs) THEN st
    ELSE RequirementLoop(reqs, emps, k + 1, shift_duration,
                         EmployeeLoop(reqs[k], emps, 1, 0, shift_duration, st))

EmployeeIds(emps) == {emps[i].employee_id : i \in DOMAIN emps}
EmployeeById(emps, id) == emps[CHOOSE i \in DOMAIN emps : emps[i].employee_id = id]

GreedyAssignment(emps, reqs, shift_duration, minimize_cost) ==
    RequirementLoop(SortedRequirements(reqs), SortedEmployees(emps, minimize_cost), 1,
                    shift_duration,
                    [shifts |-> <<>>,
                     employee_hours |-> [id \in EmployeeIds(emps) |-> 0],
                     coverage |-> <<>>])

\* hours of the understaffed check's window: range(req.time_slot, req.time_slot + 8)
UnderstaffedWindow == 8

\* actual_coverage < req.required_count * 0.8, with
\* actual_coverage = sum(coverage.get(hour, 0) for the window) / 8
Understaffed(coverage, req) ==
    10 * SumSeq([k \in 1..UnderstaffedWindow |->
                    CoverageGet(coverage, req.time_slot + k - 1)])
       < 8 * UnderstaffedWindow * req.required_count

ShiftCount(shifts, id) == Cardinality({i \in DOMAIN shifts : shifts[i].employee_id = id})

\* max_shifts - min_shifts > 5 over shift_by_employee, which holds the
\* employees that have at least one shift
UnevenDistribution(shifts) ==
    /\ shifts # <<>>
    /\ LET counts == {ShiftCount(shifts, shifts[i].employee_id) : i \in DOMAIN shifts}
       IN \E mx, mn \in counts :
              /\ \A c \in counts : mn <= c /\ c <= mx
              /\ mx - mn > 5

\* SchedulingOptimizer._generate_recommendations
ScheduleRecommendations(shifts, coverage, employee_utilization, reqs) ==
    LET understaffed_slots == {k \in DOMAIN reqs : Understaffed(coverage, reqs[k])}
        overworked == {id \in DOMAIN employee_utilization : employee_utilization[id] > 9500}
        underutilized == {id \in DOMAIN employee_utilization : employee_utilization[id] < 5000}
        recs ==
            (IF understaffed_slots # {}
             THEN <<[kind |-> "understaffed", subject |-> Cardinality(understaffed_slots)]>>
             ELSE <<>>)
            \o (IF overworked # {}
                THEN <<[kind |-> "overworked", subject |-> Cardinality(overworked)]>>
                ELSE <<>>)
            \o (IF underutilized # {}
                THEN <<[kind |-> "underutilized", subject |-> Cardinality(underutilized)]>>
                ELSE <<>>)
            \o (IF UnevenDistribution(shifts)
                THEN <<[kind |-> "uneven_distribution", subject |-> 0]>>
                ELSE <<>>)
    IN IF recs = <<>> THEN <<[kind |-> "well_balanced", subject |-> 0]>> ELSE recs

NoSchedule ==
    [status |-> "none", success |-> FALSE, shifts |-> <<>>, coverage |-> <<>>,
     total_cost |-> 0, employee_utilization |-> <<>>, recommendations |-> <<>>]

\* the call reporting success whatever it assigned
ScheduleOptimize_AlwaysSuccess(emps, reqs, shift_duration, minimize_cost) ==
    LET g == GreedyAssignment(emps, reqs, shift_duration, minimize_cost)
        zero == \E i \in DOMAIN emps : emps[i].max_hours_per_week = 0
    IN IF zero THEN [NoSchedule EXCEPT !.status = "raised"]
       ELSE LET employee_utilization ==
                    [id \in EmployeeIds(emps) |->
                        Percent(g.employee_hours[id],
                                EmployeeById(emps, id).max_hours_per_week)]
            IN [status |-> "returned",
                success |-> TRUE,
                shifts |-> g.shifts,
                coverage |-> g.coverage,
                total_cost |-> SumSeq([i \in DOMAIN g.shifts |-> g.shifts[i].cost]),
                employee_utilization |-> employee_utilization,
                recommendations |->
                    ScheduleRecommendations(g.shifts, g.coverage, employee_utilization,
                                            SortedRequirements(reqs))]

\* SchedulingOptimizer.optimize
ScheduleOptimize(emps, reqs, shift_duration, minimize_cost) ==
    LET g == GreedyAssignment(emps, reqs, shift_duration, minimize_cost)
        zero == \E i \in DOMAIN emps : emps[i].max_hours_per_week = 0
    IN IF zero THEN [NoSchedule EXCEPT !.status = "raised"]
       ELSE LET employee_utilization ==
                    [id \in EmployeeIds(emps) |->
                        Percent(g.employee_hours[id],
                                EmployeeById(emps, id).max_hours_per_week)]
            IN [status |-> "returned",
                success |-> Len(g.shifts) > 0,
                shifts |-> g.shifts,
                coverage |-> g.coverage,
                total_cost |-> SumSeq([i \in DOMAIN g.shifts |-> g.shifts[i].cost]),
                employee_utilization |-> employee_utilization,
                recommendations |->
                    ScheduleRecommendations(g.shifts, g.coverage, employee_utilization,
                                            SortedRequirements(reqs))]

----------------------------------------------------------------------------
(* SchedulingOptimizer operations *)

EmployeeInputs ==
    [max_hours_per_week : HoursPerWeek, cost_per_hour : Costs,
     skills : SkillSets, availability : AvailabilitySets]

RequirementInputs ==
    [time_slot : Slots, role : Roles, required_count : RequiredCounts,
     priority : Priorities]

NoScheduleArgs == [time_horizon_hours |-> 0, shift_duration |-> 0, minimize_cost |-> FALSE]

NotScheduled == so_result.status = "none"

\* add_employee
add_employee(e) ==
    /\ NotScheduled
    /\ Len(employees) < Len(EmployeeIdSeq)
    /\ employees' = Append(employees,
            [employee_id |-> EmployeeIdSeq[Len(employees) + 1],
             max_hours_per_week |-> e.max_hours_per_week,
             cost_per_hour |-> e.cost_per_hour,
             skills |-> e.skills, availability |-> e.availability])
    /\ UNCHANGED <<requirements, so_args, so_result, ro_vars, cp_vars>>

\* add_requirement
add_requirement(q) ==
    /\ NotScheduled
    /\ Len(requirements) < MaxRoster
    /\ requirements' = Append(requirements, q)
    /\ UNCHANGED <<employees, so_args, so_result, ro_vars, cp_vars>>

\* SchedulingOptimizer.optimize
schedule(time_horizon_hours, shift_duration, minimize_cost) ==
    /\ NotScheduled
    /\ so_args' = [time_horizon_hours |-> time_horizon_hours,
                   shift_duration |-> shift_duration,
                   minimize_cost |-> minimize_cost]
    /\ so_result' = ScheduleOptimize(employees, requirements, shift_duration, minimize_cost)
    /\ UNCHANGED <<employees, requirements, ro_vars, cp_vars>>

SchedulingInit ==
    /\ employees = <<>>
    /\ requirements = <<>>
    /\ so_args = NoScheduleArgs
    /\ so_result = NoSchedule

\* no step of the instance follows its call
SchedulingNext ==
    \/ NotScheduled /\ \E e \in EmployeeInputs : add_employee(e)
    \/ NotScheduled /\ Len(requirements) < MaxRequirements
                     /\ \E q \in RequirementInputs : add_requirement(q)
    \/ NotScheduled /\ \E h \in ScheduleHorizons, d \in ShiftDurations, m \in BOOLEAN :
          schedule(h, d, m)

\* a roster of operators: each works at most one hour or up to
\* MaxRoster + 1, and is available on every slot of the roster or on slot 0
\* only
RosterEmployeeInputs ==
    [max_hours_per_week : {1, MaxRoster + 1}, cost_per_hour : Costs,
     skills : {{"operator"}}, availability : {0..(MaxRoster - 1), {0}}]

\* one requirement per slot of the roster, for one operator or for two
RosterRequirementInputs ==
    [time_slot : 0..(MaxRoster - 1), role : {"operator"},
     required_count : RequiredCounts, priority : {1}]

\* shift_duration of the roster: the short ones and the default, 8 hours
RosterShiftDurations == ShiftDurations \cup {8}

\* the scheduler on a roster of up to MaxRoster requirements, registered
\* slot by slot
RosterNext ==
    \/ NotScheduled /\ \E e \in RosterEmployeeInputs : add_employee(e)
    \/ NotScheduled /\ \E q \in RosterRequirementInputs :
                          q.time_slot = Len(requirements) /\ add_requirement(q)
    \/ NotScheduled /\ \E h \in ScheduleHorizons, d \in RosterShiftDurations,
                          m \in BOOLEAN :
          schedule(h, d, m)

----------------------------------------------------------------------------
(* CapacityPlanner.  Quantities of demand and capacity are whole units;    *)
(* every figure the result rounds to 2 decimals is held in 1/100.          *)

\* CapacityPlanner.__init__(capacity_cost_per_unit=1000.0)
capacity_cost_per_unit == 1000

\* forecast.get('predicted_quantity', 0)
PredictedQuantity(forecast) ==
    IF "predicted_quantity" \in DOMAIN forecast THEN forecast.predicted_quantity ELSE 0

\* demand_forecasts[:planning_horizon_months]
Slice(seq, n) == SubSeq(seq, 1, Min2(Len(seq), n))

\* capacity_gap = max(0, forecasted_demand / target_utilization - current_capacity),
\* as the fraction num / target (target in percent)
GapNumerator(demand, capacity, target) == Max2(0, 100 * demand - capacity * target)

\* the utilization rate without the min(..., 1.0) clamp
UtilizationRate_Unclamped(demand, capacity) ==
    IF capacity > 0 THEN Percent(demand, capacity) ELSE 0

\* utilization_rate = min(demand / capacity if capacity > 0 else 0, 1.0) * 100
UtilizationRate(demand, capacity) ==
    IF capacity > 0
    THEN IF demand >= capacity THEN 10000 ELSE Percent(demand, capacity)
    ELSE 0

\* one CapacityForecast
CapacityForecast(i, forecast, capacity, target) ==
    LET demand == PredictedQuantity(forecast)
    IN [period |-> i,
        forecasted_demand |-> 100 * demand,
        current_capacity |-> 100 * capacity,
        required_capacity |-> RoundHalfEven(10000 * demand, target),
        capacity_gap |-> RoundHalfEven(100 * GapNumerator(demand, capacity, target), target),
        utilization_rate |-> UtilizationRate(demand, capacity),
        investment_needed |->
            RoundHalfEven(100 * GapNumerator(demand, capacity, target)
                              * capacity_cost_per_unit, target)]

\* sorted(self.demand_history, key=lambda x: x[0])
SortedHistory(history) == StableSortAsc(history, [i \in DOMAIN history |-> history[i].date])

\* `if len(self.demand_history) < 3`: the points a trend needs
MinTrendPoints == 3

\* CapacityPlanner._analyze_trend
AnalyzeTrend(history) ==
    IF Len(history) < MinTrendPoints THEN "insufficient_data"
    ELSE LET sorted == SortedHistory(history)
             n == Len(sorted)
             recent == IF n >= 30 THEN SubSeq(sorted, n - 29, n) ELSE sorted
             older == IF n > 30 THEN SubSeq(sorted, 1, n \div 2)
                      ELSE SubSeq(sorted, 1, n \div 3)
             recent_sum == SumSeq([i \in DOMAIN recent |-> recent[i].demand])
             older_sum == SumSeq([i \in DOMAIN older |-> older[i].demand])
             \* change_pct = (recent_avg - older_avg) / older_avg * 100, scaled
             \* by the positive number older_sum * Len(recent)
             change == 100 * (recent_sum * Len(older) - older_sum * Len(recent))
             ten == 10 * older_sum * Len(recent)
         IN IF recent = <<>> \/ older = <<>> THEN "stable"
            ELSE IF older_sum > 0 /\ change > ten THEN "growing"
            ELSE IF older_sum > 0 /\ change < -ten THEN "declining"
            ELSE "stable"

MaxOf(S) == CHOOSE m \in S : \A x \in S : x <= m

\* roi_months = investment / monthly_revenue if monthly_revenue > 0 else 999,
\* rounded to 2 decimals
RoiMonths(investment, monthly_revenue) ==
    IF monthly_revenue > 0 THEN RoundHalfEven(100 * investment, monthly_revenue)
    ELSE 99900

\* fc.utilization_rate > 95
IsCritical(fc) == fc.utilization_rate > 9500

\* 80 <= fc.utilization_rate <= 95
IsHigh(fc) == 8000 <= fc.utilization_rate /\ fc.utilization_rate <= 9500

\* the critical plan sized to the gap of the first critical period
CriticalPlan_FirstGap(fcs, revenue_per_unit) ==
    LET critical_periods == {i \in DOMAIN fcs : IsCritical(fcs[i])}
        first_gap == fcs[CHOOSE i \in critical_periods :
                            \A j \in critical_periods : i <= j].capacity_gap
    IN IF critical_periods = {} THEN <<>>
       ELSE <<[plan_id |-> "EXP-001-CRITICAL", timeline |-> "Immediate (0-3 months)",
               investment |-> first_gap * capacity_cost_per_unit,
               capacity_increase |-> first_gap,
               roi_months |-> RoiMonths(first_gap * capacity_cost_per_unit,
                                        first_gap * revenue_per_unit),
               priority |-> "critical"]>>

\* CapacityPlanner._generate_expansion_plans, the critical plan
CriticalPlan(fcs, revenue_per_unit) ==
    LET critical_periods == {i \in DOMAIN fcs : IsCritical(fcs[i])}
        max_gap == MaxOf({fcs[i].capacity_gap : i \in critical_periods})
    IN IF critical_periods = {} THEN <<>>
       ELSE <<[plan_id |-> "EXP-001-CRITICAL", timeline |-> "Immediate (0-3 months)",
               investment |-> max_gap * capacity_cost_per_unit,
               capacity_increase |-> max_gap,
               roi_months |-> RoiMonths(max_gap * capacity_cost_per_unit,
                                        max_gap * revenue_per_unit),
               priority |-> "critical"]>>

\* `len(high_util_periods) > 3`
HighPeriodsThreshold == 3

\* CapacityPlanner._generate_expansion_plans, the high-utilization plan
HighPlan(fcs, revenue_per_unit) ==
    LET high_util_periods == {i \in DOMAIN fcs : IsHigh(fcs[i])}
        n == Cardinality(high_util_periods)
        gap_sum == SumSeq([i \in DOMAIN fcs |->
                             IF i \in high_util_periods THEN fcs[i].capacity_gap ELSE 0])
    IN IF ~(n > HighPeriodsThreshold) THEN <<>>
       ELSE <<[plan_id |-> "EXP-002-HIGH", timeline |-> "Short-term (3-6 months)",
               investment |-> RoundHalfEven(gap_sum * capacity_cost_per_unit, n),
               capacity_increase |-> RoundHalfEven(gap_sum, n),
               roi_months |-> RoiMonths(gap_sum * capacity_cost_per_unit,
                                        gap_sum * revenue_per_unit),
               priority |-> "high"]>>

\* the strategic plan emitted for every trend but a declining one
StrategicPlan_NotDeclining(trend, capacity, revenue_per_unit) ==
    IF trend = "declining" THEN <<>>
    ELSE <<[plan_id |-> "EXP-003-STRATEGIC", timeline |-> "Long-term (6-12 months)",
            investment |-> 20 * capacity * capacity_cost_per_unit,
            capacity_increase |-> 20 * capacity,
            roi_months |-> RoiMonths(10 * 20 * capacity * capacity_cost_per_unit,
                                     7 * 20 * capacity * revenue_per_unit),
            priority |-> "medium"]>>

\* CapacityPlanner._generate_expansion_plans, the strategic plan
StrategicPlan(trend, capacity, revenue_per_unit) ==
    IF trend # "growing" THEN <<>>
    ELSE <<[plan_id |-> "EXP-003-STRATEGIC", timeline |-> "Long-term (6-12 months)",
            investment |-> 20 * capacity * capacity_cost_per_unit,
            capacity_increase |-> 20 * capacity,
            \* strategic_increase * cost / (strategic_increase * revenue * 0.7)
            roi_months |-> RoiMonths(10 * 20 * capacity * capacity_cost_per_unit,
                                     7 * 20 * capacity * revenue_per_unit),
            priority |-> "medium"]>>

\* the Monitor-only plan with a return on investment of a year
MonitorPlan_Year ==
    [plan_id |-> "EXP-000-MONITOR", timeline |-> "Monitor only",
     investment |-> 0, capacity_increase |-> 0, roi_months |-> 1200, priority |-> "low"]

\* the plan appended when no other plan was generated
MonitorPlan ==
    [plan_id |-> "EXP-000-MONITOR", timeline |-> "Monitor only",
     investment |-> 0, capacity_increase |-> 0, roi_months |-> 0, priority |-> "low"]

\* the plan list with the high-utilization plan ahead of the critical one
GenerateExpansionPlans_HighFirst(fcs, revenue_per_unit, trend, capacity) ==
    LET plans == HighPlan(fcs, revenue_per_unit)
                 \o CriticalPlan(fcs, revenue_per_unit)
                 \o StrategicPlan(trend, capacity, revenue_per_unit)
    IN IF plans = <<>> THEN <<MonitorPlan>> ELSE plans

\* CapacityPlanner._generate_expansion_plans
GenerateExpansionPlans(fcs, revenue_per_unit, trend, capacity) ==
    LET plans == CriticalPlan(fcs, revenue_per_unit)
                 \o HighPlan(fcs, revenue_per_unit)
                 \o StrategicPlan(trend, capacity, revenue_per_unit)
    IN IF plans = <<>> THEN <<MonitorPlan>> ELSE plans

\* CapacityPlanner._generate_recommendations; the caller has checked that
\* fcs is not empty (statistics.mean raises on an empty list)
CapacityRecommendations(fcs, plans, trend) ==
    LET util_sum == SumSeq([i \in DOMAIN fcs |-> fcs[i].utilization_rate])
        n == Len(fcs)
        critical_plans == {i \in DOMAIN plans : plans[i].priority = "critical"}
        good_roi_plans == {i \in DOMAIN plans : plans[i].roi_months < 1200}
    IN <<[kind |-> IF trend = "growing" THEN "trend_growing"
                   ELSE IF trend = "declining" THEN "trend_declining"
                   ELSE "trend_stable",
          subject |-> 0]>>
       \o (IF util_sum > 9000 * n THEN <<[kind |-> "utilization_urgent", subject |-> 0]>>
           ELSE IF util_sum > 8000 * n
                THEN <<[kind |-> "utilization_proactive", subject |-> 0]>>
           ELSE IF util_sum < 6000 * n
                THEN <<[kind |-> "utilization_low", subject |-> 0]>>
           ELSE <<>>)
       \o (IF critical_plans # {}
           THEN <<[kind |-> "critical_investment",
                   subject |-> SumSeq([i \in DOMAIN plans |->
                                  IF i \in critical_plans THEN plans[i].investment ELSE 0])]>>
           ELSE <<>>)
       \o (IF good_roi_plans # {}
           THEN <<[kind |-> "good_roi", subject |-> Cardinality(good_roi_plans)]>>
           ELSE <<>>)

\* the result of plan_capacity, with the value of its local `trend`
NoPlan ==
    [status |-> "none", forecasts |-> <<>>, expansion_plans |-> <<>>,
     total_investment |-> 0, expected_roi |-> 0, recommendations |-> <<>>,
     trend |-> "none"]

\* CapacityPlanner.plan_capacity
PlanCapacity(capacity, history, demand_forecasts, planning_horizon_months, target_utilization, revenue_per_unit) ==
    LET trend == AnalyzeTrend(history)
        considered == Slice(demand_forecasts, planning_horizon_months)
        fcs == [i \in DOMAIN considered |->
                   CapacityForecast(i, considered[i], capacity, target_utilization)]
        plans == GenerateExpansionPlans(fcs, revenue_per_unit, trend, capacity)
        total_investment == SumSeq([i \in DOMAIN plans |-> plans[i].investment])
        total_additional_capacity ==
            SumSeq([i \in DOMAIN plans |-> plans[i].capacity_increase])
    IN IF fcs = <<>> THEN [NoPlan EXCEPT !.status = "raised"]
       ELSE [status |-> "returned",
             forecasts |-> fcs,
             expansion_plans |-> plans,
             total_investment |-> total_investment,
             \* annual_additional_revenue / total_investment * 100
             expected_roi |->
                 IF total_investment > 0
                 THEN PercentOfProduct(total_additional_capacity, revenue_per_unit * 12,
                                       total_investment)
                 ELSE 0,
             recommendations |-> CapacityRecommendations(fcs, plans, trend),
             trend |-> trend]

----------------------------------------------------------------------------
(* CapacityPlanner operations *)

RECURSIVE SeqsUpTo(_, _)
\* the sequences over S of length at most n
SeqsUpTo(S, n) ==
    IF n = 0 THEN {<<>>}
    ELSE LET shorter == SeqsUpTo(S, n - 1)
         IN shorter \cup {Append(q, x) : q \in shorter, x \in S}

\* one more period than MaxForecasts, each forecast a positive demand
LongForecastLists ==
    [1..(MaxForecasts + 1) -> [predicted_quantity : {q \in PredictedQuantities : q > 0}]]

ForecastLists == SeqsUpTo(ForecastEntries, MaxForecasts) \cup LongForecastLists

NoPlanArgs ==
    [demand_forecasts |-> <<>>, planning_horizon_months |-> 0,
     target_utilization |-> 0, revenue_per_unit |-> 0]

NotPlanned == cp_result.status = "none"

\* set_current_capacity
set_current_capacity(capacity) ==
    /\ NotPlanned
    /\ current_capacity' = capacity
    /\ UNCHANGED <<demand_history, cp_args, cp_result, ro_vars, so_vars>>

\* add_demand_history
add_demand_history(date, demand) ==
    /\ NotPlanned
    /\ Len(demand_history) < MaxHistory
    /\ demand_history' = Append(demand_history, [date |-> date, demand |-> demand])
    /\ UNCHANGED <<current_capacity, cp_args, cp_result, ro_vars, so_vars>>

\* plan_capacity
plan_capacity(demand_forecasts, planning_horizon_months, target_utilization, revenue_per_unit) ==
    /\ NotPlanned
    /\ cp_args' = [demand_forecasts |-> demand_forecasts,
                   planning_horizon_months |-> planning_horizon_months,
                   target_utilization |-> target_utilization,
                   revenue_per_unit |-> revenue_per_unit]
    /\ cp_result' = PlanCapacity(current_capacity, demand_history, demand_forecasts,
                                 planning_horizon_months, target_utilization,
                                 revenue_per_unit)
    /\ UNCHANGED <<current_capacity, demand_history, ro_vars, so_vars>>

CapacityInit ==
    /\ current_capacity = 0
    /\ demand_history = <<>>
    /\ cp_args = NoPlanArgs
    /\ cp_result = NoPlan

\* no step of the instance follows its call
CapacityNext ==
    \/ NotPlanned /\ \E c \in CurrentCapacities : set_current_capacity(c)
    \/ NotPlanned /\ Len(demand_history) < MinTrendPoints
                   /\ \E point \in HistoryPoints : add_demand_history(point[1], point[2])
    \/ NotPlanned /\ \E fs \in ForecastLists, h \in PlanningHorizons,
                        t \in TargetUtilizations, rev \in RevenuesPerUnit :
          plan_capacity(fs, h, t, rev)

\* the forecast lists of the runs that exercise the trend
TrendForecastLists == SeqsUpTo(ForecastEntries, 1)

\* the planner with a history of up to MaxHistory points
TrendNext ==
    \/ NotPlanned /\ \E c \in CurrentCapacities : set_current_capacity(c)
    \/ NotPlanned /\ \E point \in HistoryPoints : add_demand_history(point[1], point[2])
    \/ NotPlanned /\ \E fs \in TrendForecastLists, h \in PlanningHorizons,
                        t \in TargetUtilizations, rev \in RevenuesPerUnit :
          plan_capacity(fs, h, t, rev)

----------------------------------------------------------------------------
(* ResourceOptimizer operations *)

ResourceInputs ==
    [capacity : Capacities, cost_per_hour : Costs, availability : Availabilities]

TaskInputs ==
    [product_id : Products, required_quantity : RequiredQuantities,
     duration_hours : Durations, priority : Priorities]

\* forecast maps: any subset of the products, any quantities
ForecastMaps == UNION {[S -> Quantities] : S \in {{}, {"p2"}, Products}}

NoArgs == [forecasted_demand |-> <<>>, time_horizon_hours |-> 0, minimize_cost |-> FALSE]

\* Lifecycle of an instance: the caller registers the catalog, then calls
\* optimize on it (NotSolved: the call has not been made yet).
NotSolved == ro_result.status = "none"

\* add_resource
add_resource(r) ==
    /\ NotSolved
    /\ Len(resources) < Len(ResourceIdSeq)
    /\ resources' = Append(resources,
            [resource_id |-> ResourceIdSeq[Len(resources) + 1],
             capacity |-> r.capacity, cost_per_hour |-> r.cost_per_hour,
             availability |-> r.availability])
    /\ UNCHANGED <<PULP_AVAILABLE, tasks, ro_args, ro_result, so_vars, cp_vars>>

\* add_task
add_task(t) ==
    /\ NotSolved
    /\ Len(tasks) < Len(TaskIdSeq)
    /\ tasks' = Append(tasks,
            [task_id |-> TaskIdSeq[Len(tasks) + 1],
             product_id |-> t.product_id, required_quantity |-> t.required_quantity,
             duration_hours |-> t.duration_hours, priority |-> t.priority])
    /\ UNCHANGED <<PULP_AVAILABLE, resources, ro_args, ro_result, so_vars, cp_vars>>

\* ResourceOptimizer.optimize
optimize(forecasted_demand, time_horizon_hours, minimize_cost) ==
    /\ NotSolved
    /\ ro_args' = [forecasted_demand |-> forecasted_demand,
                   time_horizon_hours |-> time_horizon_hours,
                   minimize_cost |-> minimize_cost]
    /\ IF ~PULP_AVAILABLE
       THEN ro_result' = SimpleOptimization(resources, tasks, forecasted_demand,
                                            time_horizon_hours)
       ELSE \E sol \in Solve(resources, tasks, forecasted_demand,
                              time_horizon_hours, minimize_cost) :
               ro_result' = SolverResult(resources, tasks, forecasted_demand,
                                         time_horizon_hours, minimize_cost, sol)
    /\ UNCHANGED <<PULP_AVAILABLE, resources, tasks, so_vars, cp_vars>>

ResourceInit ==
    /\ PULP_AVAILABLE \in BOOLEAN
    /\ resources = <<>>
    /\ tasks = <<>>
    /\ ro_args = NoArgs
    /\ ro_result = NoResult

\* no step of the instance follows its call
ResourceNext ==
    \/ NotSolved /\ \E r \in ResourceInputs : add_resource(r)
    \/ NotSolved /\ \E t \in TaskInputs : add_task(t)
    \/ NotSolved /\ \E f \in ForecastMaps, h \in Horizons, m \in BOOLEAN :
          optimize(f, h, m)

\* the three optimizers, constructed
Init == ResourceInit /\ SchedulingInit /\ CapacityInit

\* the exact solver is not installed: optimize is _simple_optimization
GreedyInit == Init /\ ~PULP_AVAILABLE

SpecGreedy == GreedyInit /\ [][ResourceNext]_vars

\* the exact solver is installed; the catalogs are kept to MaxSolverVars
\* decision variables (tasks x resources)
SolverNext ==
    \/ /\ NotSolved
       /\ Len(tasks) * (Len(resources) + 1) <= MaxSolverVars
       /\ \E r \in ResourceInputs : add_resource(r)
    \/ /\ NotSolved
       /\ (Len(tasks) + 1) * Len(resources) <= MaxSolverVars
       /\ \E t \in TaskInputs : add_task(t)
    \/ NotSolved /\ \E f \in ForecastMaps, h \in Horizons, m \in BOOLEAN :
          optimize(f, h, m)

SolverInit == Init /\ PULP_AVAILABLE

SpecSolver == SolverInit /\ [][SolverNext]_vars

\* one CapacityPlanner instance
SpecCapacity == GreedyInit /\ [][CapacityNext]_vars

\* one CapacityPlanner instance with a longer demand history
SpecTrend == GreedyInit /\ [][TrendNext]_vars

\* one SchedulingOptimizer instance with a longer list of requirements
SpecRoster == GreedyInit /\ [][RosterNext]_vars

\* one SchedulingOptimizer instance
SpecSchedule == GreedyInit /\ [][SchedulingNext]_vars

\* the three optimizers side by side
Next == ResourceNext \/ SchedulingNext \/ CapacityNext
Spec == Init /\ [][Next]_vars

----------------------------------------------------------------------------
(* Properties of ResourceOptimizer.optimize *)

Returned == ro_result.status = "returned"

\* hours allocated to resource id, summed over the assignments
AllocatedTo(assignments, id) ==
    SumSeq([i \in DOMAIN assignments |->
               IF assignments[i].resource_id = id
               THEN assignments[i].allocated_hours ELSE 0])

CountRecs(recommendations, kind, subject) ==
    Cardinality({i \in DOMAIN recommendations :
                    /\ recommendations[i].kind = kind
                    /\ recommendations[i].subject = subject})

C6_OptimizeNeverRaises == ro_result.status # "raised"

\* C8: with no resource registered the greedy path returns no assignment,
\* an empty utilization map, and exactly one unmet-demand warning for each
\* product whose forecast is > 0, none for the other products, whatever
\* tasks are registered.
C8_NoResources ==
    (resources = <<>> /\ ~NotSolved) =>
        /\ Returned
        /\ ro_result.assignments = <<>>
        /\ DOMAIN ro_result.utilization = {}
        /\ \A p \in Products :
              CountRecs(ro_result.recommendations, "unmet_demand", p)
                 = IF Forecasted(ro_args.forecasted_demand, p) > 0 THEN 1 ELSE 0

\* C8 witness: no resource, two tasks, a product with positive forecast (it
\* gets its warning) and one with a forecast that is not positive
C8_Witness ==
    /\ resources = <<>> /\ Len(tasks) = 2 /\ Returned
    /\ \E p, q \in Products :
          /\ Forecasted(ro_args.forecasted_demand, p) > 0
          /\ Forecasted(ro_args.forecasted_demand, q) < 0
          /\ CountRecs(ro_result.recommendations, "unmet_demand", p) = 1

\* C9: on both paths the utilization reported for a resource is
\* (hours allocated to it) / (capacity x horizon_hours) x 100, availability
\* not in the denominator.
C9_UtilizationOverCapacityHorizon ==
    (Returned /\ \A p \in DOMAIN ro_args.forecasted_demand :
                    ro_args.forecasted_demand[p] >= 0) =>
        \A i \in DOMAIN resources :
            ro_result.utilization[resources[i].resource_id]
               = Percent(AllocatedTo(ro_result.assignments, resources[i].resource_id),
                         Scale * resources[i].capacity * ro_args.time_horizon_hours)

\* C10: every assignment has allocated_hours >= 0, and the greedy path
\* assigns only tasks whose product has a forecast > 0, whatever the sign
\* of the forecast quantities.
C10_AssignmentsNonNegative ==
    Returned =>
        \A i \in DOMAIN ro_result.assignments :
            /\ ro_result.assignments[i].allocated_hours >= 0
            /\ ro_result.path = "greedy" =>
                  Forecasted(ro_args.forecasted_demand,
                             ro_result.assignments[i].product_id) > 0

\* the registered task / resource an assignment names
TaskOf(a) == tasks[CHOOSE k \in DOMAIN tasks : tasks[k].task_id = a.task_id]
ResourceOf(a) == ResourceById(resources, a.resource_id)

\* remaining capacity of the resource of assignment i when it was made:
\* its capacity hours less the hours of the earlier assignments on it
RemainingBefore(assignments, i) ==
    CapacityHours(ResourceOf(assignments[i]), ro_args.time_horizon_hours)
       - AllocatedTo(SubSeq(assignments, 1, i - 1), assignments[i].resource_id)

\* C11: on the greedy path an assigned task receives exactly
\* min(duration_hours x forecast, remaining capacity of the chosen resource)
\* hours and the remaining capacity of the resource decreases by exactly
\* that amount; with ample remaining capacity the task receives at least
\* duration_hours x forecast hours.
C11_GreedyAllocation ==
    (Returned /\ ro_result.path = "greedy") =>
        /\ \A i \in DOMAIN ro_result.assignments :
              LET a == ro_result.assignments[i]
                  wanted == Scale * TaskOf(a).duration_hours
                               * Forecasted(ro_args.forecasted_demand, a.product_id)
                  before == RemainingBefore(ro_result.assignments, i)
              IN /\ a.allocated_hours = Min2(wanted, before)
                 /\ before >= wanted => a.allocated_hours >= wanted
        /\ \A k \in DOMAIN resources :
              ro_result.remaining_capacity[resources[k].resource_id]
                 = CapacityHours(resources[k], ro_args.time_horizon_hours)
                      - AllocatedTo(ro_result.assignments, resources[k].resource_id)

\* C11 witness: two tasks on one resource, the first gets its full
\* duration_hours x forecast, the second is cut to what remains
C11_Witness ==
    /\ Returned /\ ro_result.path = "greedy" /\ Len(resources) = 1
    /\ Len(ro_result.assignments) = 2
    /\ LET a == ro_result.assignments[1]
           b == ro_result.assignments[2]
       IN /\ a.allocated_hours = Scale * TaskOf(a).duration_hours
                                   * Forecasted(ro_args.forecasted_demand, a.product_id)
          /\ a.allocated_hours > 0
          /\ b.allocated_hours < Scale * TaskOf(b).duration_hours
                                   * Forecasted(ro_args.forecasted_demand, b.product_id)
          /\ b.allocated_hours > 0
          /\ ro_result.remaining_capacity[resources[1].resource_id] = 0

\* registered task k is served before registered task m: higher priority
\* first, registration order among equal priorities
ServedBefore(k, m) ==
    \/ tasks[k].priority > tasks[m].priority
    \/ tasks[k].priority = tasks[m].priority /\ k < m

\* the position in `tasks` of the task an assignment names
TaskIndex(a) == CHOOSE k \in DOMAIN tasks : tasks[k].task_id = a.task_id

\* remaining capacity of registered resource j when registered task k is
\* served: its capacity hours less the hours assigned to the tasks served
\* before k
RemainingWhenServed(j, k) ==
    LET assignments == ro_result.assignments
        earlier == {i \in DOMAIN assignments : ServedBefore(TaskIndex(assignments[i]), k)}
    IN CapacityHours(resources[j], ro_args.time_horizon_hours)
          - SumSeq([i \in DOMAIN assignments |->
                      IF i \in earlier /\ assignments[i].resource_id = resources[j].resource_id
                      THEN assignments[i].allocated_hours ELSE 0])

\* registered resource j can take registered task k when k is served
HasRoom(j, k) == RemainingWhenServed(j, k) >= Scale * tasks[k].duration_hours

\* C18: the greedy fallback serves the tasks in descending priority (equal
\* priorities in registration order); an assigned task gets the lowest-cost
\* resource (the first registered among equal costs) whose remaining
\* capacity is at least the task's duration_hours; a task with a positive
\* forecast is left unassigned exactly when no resource has that much
\* remaining capacity, and the tasks after it are still served.
C18_GreedyOrderAndChoice ==
    (Returned /\ ro_result.path = "greedy") =>
        LET assignments == ro_result.assignments
        IN /\ \A i, j \in DOMAIN assignments :
                 i < j => ServedBefore(TaskIndex(assignments[i]), TaskIndex(assignments[j]))
           /\ \A i \in DOMAIN assignments :
                 LET k == TaskIndex(assignments[i])
                 IN \E j \in DOMAIN resources :
                       /\ resources[j].resource_id = assignments[i].resource_id
                       /\ HasRoom(j, k)
                       /\ \A m \in DOMAIN resources :
                             HasRoom(m, k) =>
                                \/ resources[j].cost_per_hour < resources[m].cost_per_hour
                                \/ /\ resources[j].cost_per_hour = resources[m].cost_per_hour
                                   /\ j <= m
           /\ \A k \in DOMAIN tasks :
                 Forecasted(ro_args.forecasted_demand, tasks[k].product_id) > 0 =>
                    ((\A i \in DOMAIN assignments : TaskIndex(assignments[i]) # k)
                        <=> (\A j \in DOMAIN resources : ~HasRoom(j, k)))

\* C18 witness: the task served first has a positive forecast and finds no
\* resource with room, the task served after it is assigned, to the cheaper
\* of two resources that both have room
C18_Witness ==
    /\ Returned /\ ro_result.path = "greedy"
    /\ Len(tasks) = 2 /\ Len(resources) = 2 /\ Len(ro_result.assignments) = 1
    /\ \E k, m \in DOMAIN tasks :
          /\ ServedBefore(k, m)
          /\ Forecasted(ro_args.forecasted_demand, tasks[k].product_id) > 0
          /\ TaskIndex(ro_result.assignments[1]) = m
          /\ HasRoom(1, m) /\ HasRoom(2, m)
          /\ resources[1].cost_per_hour > resources[2].cost_per_hour
          /\ ro_result.assignments[1].resource_id = resources[2].resource_id

\* the assignments of the result that name registered task k
AssignmentsOf(k) ==
    {i \in DOMAIN ro_result.assignments :
        ro_result.assignments[i].task_id = tasks[k].task_id}

\* C26: in the greedy fallback each registered task appears in at most one
\* assignment, so its hours come from a single resource and are never split
\* over several.
C26_OneAssignmentPerTask ==
    (Returned /\ ro_result.path = "greedy") =>
        \A k \in DOMAIN tasks : Cardinality(AssignmentsOf(k)) <= 1

\* C26 witness: a task that received fewer than duration_hours x forecast
\* hours from its one resource while the other resource still has unused
\* capacity that would have covered the rest
C26_Witness ==
    /\ Returned /\ ro_result.path = "greedy"
    /\ Len(resources) = 2 /\ Len(ro_result.assignments) = 1
    /\ LET a == ro_result.assignments[1]
           wanted == Scale * TaskOf(a).duration_hours
                        * Forecasted(ro_args.forecasted_demand, a.product_id)
       IN /\ a.allocated_hours > 0
          /\ a.allocated_hours < wanted
          /\ \E j \in DOMAIN resources :
                /\ resources[j].resource_id # a.resource_id
                /\ ro_result.remaining_capacity[resources[j].resource_id]
                      >= wanted - a.allocated_hours

----------------------------------------------------------------------------
(* Properties of SchedulingOptimizer.optimize *)

Scheduled == so_result.status = "returned"

\* the employee of a shift
ShiftEmployee(shift) == EmployeeById(employees, shift.employee_id)

\* employee could take requirement q as far as role, availability and
\* weekly hours for `count` shifts go
CouldTake(employee, q, count) ==
    /\ q.role \in employee.skills
    /\ q.time_slot \in employee.availability
    /\ count * so_args.shift_duration <= employee.max_hours_per_week

C3_ShiftsEligible ==
    Scheduled =>
        /\ \A i \in DOMAIN so_result.shifts :
              /\ so_result.shifts[i].role \in ShiftEmployee(so_result.shifts[i]).skills
              /\ so_result.shifts[i].time_slot
                    \in ShiftEmployee(so_result.shifts[i]).availability
        /\ \A k \in DOMAIN employees :
              /\ so_args.shift_duration
                    * ShiftCount(so_result.shifts, employees[k].employee_id)
                    <= employees[k].max_hours_per_week
              /\ so_result.employee_utilization[employees[k].employee_id] <= 10000

\* C3 witness: an employee with the role and the slots of two requirements
\* at non-conflicting slots, but weekly hours for one shift only, holds one
\* shift and is reported at 100%
C3_Witness ==
    /\ Scheduled /\ Len(requirements) = 2 /\ Len(employees) = 1
    /\ Abs(requirements[1].time_slot - requirements[2].time_slot) >= so_args.shift_duration
    /\ CouldTake(employees[1], requirements[1], 1)
    /\ CouldTake(employees[1], requirements[2], 1)
    /\ employees[1].max_hours_per_week = so_args.shift_duration
    /\ Len(so_result.shifts) = 1
    /\ so_result.employee_utilization[employees[1].employee_id] = 10000

\* C7: optimize returns a ScheduleResult without raising for every employee
\* catalog: with zero employees no shifts and an empty utilization map, and
\* a utilization figure for every employee, max_hours_per_week = 0 included.
C7_ScheduleNeverRaises ==
    ~NotScheduled =>
        /\ Scheduled
        /\ DOMAIN so_result.employee_utilization = EmployeeIds(employees)
        /\ employees = <<>> => so_result.shifts = <<>>

\* the returned shifts whose hours [time_slot, time_slot + shift_duration)
\* contain hour h
ShiftsOver(h) ==
    {i \in DOMAIN so_result.shifts :
        /\ so_result.shifts[i].time_slot <= h
        /\ h < so_result.shifts[i].time_slot + so_args.shift_duration}

RECURSIVE SumOver(_, _)
\* the sum of f over the set S
SumOver(f, S) ==
    IF S = {} THEN 0
    ELSE LET x == CHOOSE x \in S : TRUE IN f[x] + SumOver(f, S \ {x})

\* C13: after optimize, coverage[h] is the number of returned shifts whose
\* window [time_slot, time_slot + shift_duration) contains h, hours covered
\* by no shift are absent from the map, and the coverage values sum to
\* shift_duration x number of shifts.
C13_CoverageCountsShifts ==
    Scheduled =>
        /\ \A h \in DOMAIN so_result.coverage :
              /\ ShiftsOver(h) # {}
              /\ so_result.coverage[h] = Cardinality(ShiftsOver(h))
        /\ \A i \in DOMAIN so_result.shifts :
              \A h \in so_result.shifts[i].time_slot
                        .. (so_result.shifts[i].time_slot + so_args.shift_duration - 1) :
                  h \in DOMAIN so_result.coverage
        /\ SumOver(so_result.coverage, DOMAIN so_result.coverage)
              = so_args.shift_duration * Len(so_result.shifts)

\* C13 witness: shifts longer than one hour at two adjacent slots, so that
\* an hour is covered twice and another once
C13_Witness ==
    /\ Scheduled /\ so_args.shift_duration > 1 /\ Len(so_result.shifts) = 2
    /\ Abs(so_result.shifts[1].time_slot - so_result.shifts[2].time_slot) = 1
    /\ \E h, g \in DOMAIN so_result.coverage :
          so_result.coverage[h] = 2 /\ so_result.coverage[g] = 1

\* one employee, one requirement with required_count = 1, the employee
\* eligible for it
ScenarioB ==
    /\ Len(employees) = 1 /\ Len(requirements) = 1
    /\ requirements[1].required_count = 1
    /\ CouldTake(employees[1], requirements[1], 1)

\* C14: every shift costs shift_duration x cost_per_hour of its employee and
\* total_cost is the sum of the shift costs; with one employee eligible for
\* the single requirement (required_count = 1) there is exactly one shift,
\* at the requirement's slot, total_cost is its cost, and coverage is 1 on
\* each hour of the shift window.
C14_ShiftCost ==
    Scheduled =>
        /\ \A i \in DOMAIN so_result.shifts :
              so_result.shifts[i].cost
                 = so_args.shift_duration * ShiftEmployee(so_result.shifts[i]).cost_per_hour
        /\ so_result.total_cost
              = SumSeq([i \in DOMAIN so_result.shifts |-> so_result.shifts[i].cost])
        /\ ScenarioB =>
              /\ Len(so_result.shifts) = 1
              /\ so_result.shifts[1].time_slot = requirements[1].time_slot
              /\ so_result.shifts[1].employee_id = employees[1].employee_id
              /\ so_result.total_cost
                    = so_args.shift_duration * employees[1].cost_per_hour
              /\ so_result.coverage
                    = [h \in requirements[1].time_slot
                               .. (requirements[1].time_slot + so_args.shift_duration - 1)
                          |-> 1]

\* C14 witness: the scenario with a shift of several hours and an hourly
\* cost above 1
C14_Witness ==
    /\ Scheduled /\ ScenarioB
    /\ so_args.shift_duration > 1 /\ employees[1].cost_per_hour > 1
    /\ Len(so_result.shifts) = 1
    /\ so_result.total_cost = so_args.shift_duration * employees[1].cost_per_hour

\* requirement q is served before requirement p whatever their registration
\* order: higher priority, or equal priority and later time_slot
OutRanks(q, p) ==
    \/ q.priority > p.priority
    \/ q.priority = p.priority /\ q.time_slot > p.time_slot

\* the shift is one a requirement asks for
Matches(shift, q) == shift.time_slot = q.time_slot /\ shift.role = q.role

\* the orders of the registered requirements that descend by
\* (priority, time_slot)
ServingOrders ==
    {order \in [DOMAIN requirements -> DOMAIN requirements] :
        /\ \A i, j \in DOMAIN requirements : i # j => order[i] # order[j]
        /\ \A i, j \in DOMAIN requirements :
              i < j => ~OutRanks(requirements[order[j]], requirements[order[i]])}

\* one shift would put the employee over the weekly hours or inside the
\* overlap window of the other
CannotServeBoth(employee, q, p) ==
    \/ 2 * so_args.shift_duration > employee.max_hours_per_week
    \/ Abs(q.time_slot - p.time_slot) < so_args.shift_duration

\* C19: requirements are served in descending (priority, time_slot) order.
\* When two requirements compete for an employee who can take either but
\* not both (weekly hours or overlap), the one that outranks the other
\* (higher priority, or equal priority and later time_slot) has the
\* employee unless employees ahead of them in cost order filled it first,
\* and the other does not; and the shifts list falls into consecutive blocks, one per
\* requirement, in a descending (priority, time_slot) order.
C19_ServingOrder ==
    Scheduled =>
        LET shifts == so_result.shifts
        IN /\ \A a, b \in DOMAIN requirements, e \in DOMAIN employees :
                 LET q == requirements[a]
                     p == requirements[b]
                     own == {i \in DOMAIN shifts :
                                shifts[i].employee_id = employees[e].employee_id}
                     others == {i \in DOMAIN shifts :
                                   /\ shifts[i].employee_id # employees[e].employee_id
                                   /\ Matches(shifts[i], q)}
                 IN (/\ \A c \in DOMAIN requirements :
                           c # a => OutRanks(q, requirements[c])
                     /\ OutRanks(q, p)
                     /\ CouldTake(employees[e], q, 1)
                     /\ CouldTake(employees[e], p, 1)
                     /\ CannotServeBoth(employees[e], q, p))
                    => \/ /\ Cardinality(own) = 1
                          /\ \A i \in own : Matches(shifts[i], q)
                       \/ Cardinality(others) >= q.required_count
           /\ \E order \in ServingOrders :
                 \E block \in [DOMAIN shifts -> DOMAIN requirements] :
                    /\ \A i, j \in DOMAIN shifts : i < j => block[i] <= block[j]
                    /\ \A i \in DOMAIN shifts :
                          Matches(shifts[i], requirements[order[block[i]]])

\* C19 witness: two requirements of equal priority, the cheaper employee
\* could take either but not both, has the shift of the later time_slot,
\* which heads the shifts list, and the earlier slot goes to the other
\* employee
C19_Witness ==
    /\ Scheduled /\ so_args.minimize_cost
    /\ Len(requirements) = 2 /\ Len(employees) = 2 /\ Len(so_result.shifts) = 2
    /\ requirements[1].priority = requirements[2].priority
    /\ requirements[1].time_slot < requirements[2].time_slot
    /\ employees[1].cost_per_hour < employees[2].cost_per_hour
    /\ CouldTake(employees[1], requirements[1], 1)
    /\ CouldTake(employees[1], requirements[2], 1)
    /\ CannotServeBoth(employees[1], requirements[1], requirements[2])
    /\ so_result.shifts[1].employee_id = employees[1].employee_id
    /\ so_result.shifts[1].time_slot = requirements[2].time_slot
    /\ so_result.shifts[2].employee_id = employees[2].employee_id
    /\ so_result.shifts[2].time_slot = requirements[1].time_slot

\* registered employee e comes before registered employee f in cost order:
\* ascending cost_per_hour when minimize_cost, descending otherwise, equal
\* costs in registration order
Ahead(e, f) ==
    \/ /\ so_args.minimize_cost
       /\ employees[e].cost_per_hour < employees[f].cost_per_hour
    \/ /\ ~so_args.minimize_cost
       /\ employees[e].cost_per_hour > employees[f].cost_per_hour
    \/ employees[e].cost_per_hour = employees[f].cost_per_hour /\ e < f

\* the position in `employees` of the employee of a shift
EmployeeIndex(shift) ==
    CHOOSE e \in DOMAIN employees : employees[e].employee_id = shift.employee_id

\* registered employee e is eligible for requirement q once the shifts of
\* `earlier` are assigned: role, availability, weekly hours with one more
\* shift, and no shift of their own within shift_duration of q's slot
EligibleAfter(e, q, earlier) ==
    LET own == {i \in DOMAIN earlier : earlier[i].employee_id = employees[e].employee_id}
    IN /\ CouldTake(employees[e], q, Cardinality(own) + 1)
       /\ \A i \in own : Abs(earlier[i].time_slot - q.time_slot) >= so_args.shift_duration

\* C20: each requirement is assigned exactly the first
\* min(required_count, number of eligible employees) employees eligible when
\* it is processed, in cost order (ascending cost_per_hour when
\* minimize_cost, descending otherwise, equal costs in registration order);
\* it never receives more than required_count shifts and is short only when
\* no further eligible employee exists.
C20_FirstEligibleInCostOrder ==
    Scheduled =>
        LET shifts == so_result.shifts
        IN \E order \in ServingOrders :
              \E block \in [DOMAIN shifts -> DOMAIN requirements] :
                 /\ \A i, j \in DOMAIN shifts : i < j => block[i] <= block[j]
                 /\ \A k \in DOMAIN requirements :
                       LET q == requirements[order[k]]
                           mine == {i \in DOMAIN shifts : block[i] = k}
                           earlier == SubSeq(shifts, 1,
                                         Cardinality({i \in DOMAIN shifts : block[i] < k}))
                           eligible == {e \in DOMAIN employees : EligibleAfter(e, q, earlier)}
                           first == {e \in eligible :
                                       Cardinality({f \in eligible : Ahead(f, e)})
                                          < q.required_count}
                       IN /\ \A i \in mine : Matches(shifts[i], q)
                          /\ {EmployeeIndex(shifts[i]) : i \in mine} = first
                          /\ Cardinality(mine) = Min2(q.required_count, Cardinality(eligible))
                          /\ \A i, j \in mine :
                                i < j => Ahead(EmployeeIndex(shifts[i]),
                                               EmployeeIndex(shifts[j]))
                          /\ Cardinality(mine) <= q.required_count
                          /\ Cardinality(mine) < q.required_count =>
                                eligible \subseteq {EmployeeIndex(shifts[i]) : i \in mine}

\* C20 witness: minimize_cost is off, the requirement served first wants one
\* employee and gets the costlier of two eligible ones; the other
\* requirement wants two and is left short with the one still eligible
C20_Witness ==
    /\ Scheduled /\ ~so_args.minimize_cost
    /\ Len(requirements) = 2 /\ Len(employees) = 2 /\ Len(so_result.shifts) = 2
    /\ employees[1].cost_per_hour < employees[2].cost_per_hour
    /\ \E a, b \in DOMAIN requirements :
          /\ OutRanks(requirements[a], requirements[b])
          /\ requirements[a].time_slot # requirements[b].time_slot
          /\ requirements[a].required_count = 1
          /\ requirements[b].required_count = 2
          /\ EligibleAfter(1, requirements[a], <<>>)
          /\ EligibleAfter(2, requirements[a], <<>>)
          /\ so_result.shifts[1].employee_id = employees[2].employee_id
          /\ Matches(so_result.shifts[1], requirements[a])
          /\ so_result.shifts[2].employee_id = employees[1].employee_id
          /\ Matches(so_result.shifts[2], requirements[b])

\* the requirements whose average coverage per hour over their own shift
\* window [time_slot, time_slot + shift_duration) is below 0.8 x required_count
ShortOverShiftWindow ==
    {k \in DOMAIN requirements :
        10 * SumOver([h \in Window(requirements[k].time_slot, so_args.shift_duration) |->
                         CoverageGet(so_result.coverage, h)],
                     Window(requirements[k].time_slot, so_args.shift_duration))
           < 8 * so_args.shift_duration * requirements[k].required_count}

\* C21: for every shift_duration the understaffed warning counts exactly the
\* requirements whose average coverage per hour over their own shift window
\* is below 0.8 x required_count (and is absent when there is none), so a
\* requirement whose required_count was fully assigned is never counted.
C21_UnderstaffedOverShiftWindow ==
    Scheduled =>
        IF ShortOverShiftWindow = {}
        THEN \A i \in DOMAIN so_result.recommendations :
                so_result.recommendations[i].kind # "understaffed"
        ELSE CountRecs(so_result.recommendations, "understaffed",
                       Cardinality(ShortOverShiftWindow)) = 1

\* the number of returned shifts of registered employee e
ShiftsOf(e) == ShiftCount(so_result.shifts, employees[e].employee_id)

\* C22: the recommendations contain the uneven-distribution note exactly
\* when the most-scheduled registered employee has more than 5 shifts more
\* than the least-scheduled registered employee.
C22_UnevenDistributionNote ==
    Scheduled =>
        ((\E i \in DOMAIN so_result.recommendations :
             so_result.recommendations[i].kind = "uneven_distribution")
         <=> (\E e, f \in DOMAIN employees : ShiftsOf(e) - ShiftsOf(f) > 5))

\* the returned shifts that requirement k asks for
ShiftsFor(k) ==
    {i \in DOMAIN so_result.shifts : Matches(so_result.shifts[i], requirements[k])}

\* requirement k has fewer than 80% of its required_count assigned
ShortOfStaff(k) == 10 * Cardinality(ShiftsFor(k)) < 8 * requirements[k].required_count

\* C23: a staffing shortfall never raises and is always reflected in the
\* recommendations: whenever some requirement ends optimize with fewer than
\* 80% of its required_count employees assigned, the call returns and the
\* recommendations contain the understaffed warning.
C23_ShortfallReported ==
    ~NotScheduled =>
        /\ Scheduled
        /\ (\E k \in DOMAIN requirements : ShortOfStaff(k)) =>
              \E i \in DOMAIN so_result.recommendations :
                 so_result.recommendations[i].kind = "understaffed"

\* some registered employee has the role, the availability and the weekly
\* hours for one shift of some registered requirement that asks for someone
SomeoneFits ==
    \E e \in DOMAIN employees, k \in DOMAIN requirements :
        /\ requirements[k].required_count >= 1
        /\ CouldTake(employees[e], requirements[k], 1)

\* C27: ScheduleResult.success is true exactly when at least one shift was
\* assigned: it is false when no requirement is registered or no employee
\* is eligible for any requirement, and true as soon as some employee is,
\* even when requirements are left partly or wholly unfilled.
C27_SuccessIffSomeShift ==
    Scheduled =>
        /\ so_result.success <=> so_result.shifts # <<>>
        /\ requirements = <<>> => ~so_result.success
        /\ so_result.success <=> SomeoneFits

\* C27 witness: a successful result in which one requirement has no shift at
\* all and the other fewer than its required_count
C27_Witness ==
    /\ Scheduled /\ so_result.success
    /\ Len(requirements) = 2
    /\ \E k, m \in DOMAIN requirements :
          /\ ShiftsFor(k) = {}
          /\ ShiftsFor(m) # {}
          /\ Cardinality(ShiftsFor(m)) < requirements[m].required_count

----------------------------------------------------------------------------
(* Properties of CapacityPlanner.plan_capacity *)

Planned == cp_result.status = "returned"

\* the forecast entries plan_capacity considers
Considered == Slice(cp_args.demand_forecasts, cp_args.planning_horizon_months)

\* C4 as stated: for every forecast entry, every current capacity >= 0 and
\* every target utilization, each CapacityForecast has capacity_gap >= 0 and
\* utilization_rate between 0 and 100, and utilization_rate = 0 when the
\* current capacity is 0.
C4_GapAndUtilizationBounds ==
    Planned =>
        \A i \in DOMAIN cp_result.forecasts :
            /\ cp_result.forecasts[i].capacity_gap >= 0
            /\ cp_result.forecasts[i].utilization_rate >= 0
            /\ cp_result.forecasts[i].utilization_rate <= 10000
            /\ current_capacity = 0 => cp_result.forecasts[i].utilization_rate = 0

\* C4 amended: each CapacityForecast has capacity_gap >= 0 and
\* utilization_rate <= 100, utilization_rate = 0 when the current capacity
\* is 0, and utilization_rate >= 0 for the entries whose predicted quantity
\* is not negative.
C4_GapAndUtilizationBounds_Amended ==
    Planned =>
        \A i \in DOMAIN cp_result.forecasts :
            /\ cp_result.forecasts[i].capacity_gap >= 0
            /\ cp_result.forecasts[i].utilization_rate <= 10000
            /\ current_capacity = 0 => cp_result.forecasts[i].utilization_rate = 0
            /\ PredictedQuantity(Considered[i]) >= 0 =>
                  cp_result.forecasts[i].utilization_rate >= 0

\* C4 witness: a plan whose periods hold a demand above the current
\* capacity (reported at 100%, with a gap) and a negative predicted quantity
C4_Witness ==
    /\ Planned /\ current_capacity > 0
    /\ \E i, j \in DOMAIN cp_result.forecasts :
          /\ PredictedQuantity(Considered[i]) > current_capacity
          /\ cp_result.forecasts[i].utilization_rate = 10000
          /\ cp_result.forecasts[i].capacity_gap > 0
          /\ PredictedQuantity(Considered[j]) < 0
          /\ cp_result.forecasts[j].capacity_gap = 0

\* C5: plan_capacity with an empty demand_forecasts list, or with
\* planning_horizon_months = 0, returns a result with an empty forecasts
\* list and does not raise.
C5_EmptyForecastsReturn ==
    (~NotPlanned /\ Considered = <<>>) =>
        /\ Planned
        /\ cp_result.forecasts = <<>>

\* the sum of the demands of `points`
DemandSum(points) == SumSeq([i \in DOMAIN points |-> points[i].demand])

\* the trend of a date-sorted history when the older window is its first
\* half, or its first third when it has more than 30 points
TrendOverFirstHalf(sorted) ==
    LET n == Len(sorted)
        recent == IF n >= 30 THEN SubSeq(sorted, n - 29, n) ELSE sorted
        older == IF n > 30 THEN SubSeq(sorted, 1, n \div 3)
                 ELSE SubSeq(sorted, 1, n \div 2)
        \* (recent mean - older mean) / older mean against 10%, cleared of
        \* the denominators
        change == 100 * (DemandSum(recent) * Len(older) - DemandSum(older) * Len(recent))
        ten == 10 * DemandSum(older) * Len(recent)
    IN IF change > ten THEN "growing"
       ELSE IF change < -ten THEN "declining"
       ELSE "stable"

\* C15: with at least 3 history points the trend compares the mean of the
\* most recent 30 points of the date-sorted history (all of them if fewer
\* than 30) with the mean of the first half of the history (the first third
\* when it has more than 30 points): growing above +10%, declining below
\* -10%, stable otherwise; with fewer than 3 points it is insufficient_data.
C15_TrendWindows ==
    Planned =>
        cp_result.trend =
            IF Len(demand_history) < 3 THEN "insufficient_data"
            ELSE TrendOverFirstHalf(SortedHistory(demand_history))

\* the positions of the plans with the given id in the returned plan list
PlansWithId(plan_id) ==
    {i \in DOMAIN cp_result.expansion_plans :
        cp_result.expansion_plans[i].plan_id = plan_id}

\* C16: plan_capacity emits exactly one strategic plan (EXP-003-STRATEGIC,
\* Long-term) when the trend is growing, with capacity_increase equal to
\* 0.20 x current_capacity, and no strategic plan when the trend is
\* declining, stable or insufficient_data.
C16_StrategicPlanIffGrowing ==
    Planned =>
        LET strategic == PlansWithId("EXP-003-STRATEGIC")
        IN IF cp_result.trend = "growing"
           THEN /\ Cardinality(strategic) = 1
                /\ \A i \in strategic :
                      /\ cp_result.expansion_plans[i].timeline = "Long-term (6-12 months)"
                      \* 0.20 x current_capacity, in 1/100
                      /\ 5 * cp_result.expansion_plans[i].capacity_increase
                            = 100 * current_capacity
           ELSE strategic = {}

\* C16 witness: a growing history and a positive capacity, whose plan list
\* holds the strategic plan after another plan
C16_Witness ==
    /\ Planned /\ cp_result.trend = "growing" /\ current_capacity > 0
    /\ Len(cp_result.expansion_plans) > 1
    /\ \E i \in PlansWithId("EXP-003-STRATEGIC") :
          cp_result.expansion_plans[i].capacity_increase > 0

\* the place of a plan kind in the order critical, high, strategic, monitor
PlanRank(plan_id) ==
    CASE plan_id = "EXP-001-CRITICAL" -> 1
      [] plan_id = "EXP-002-HIGH" -> 2
      [] plan_id = "EXP-003-STRATEGIC" -> 3
      [] plan_id = "EXP-000-MONITOR" -> 4

\* the periods of the returned plan whose utilization_rate is above 95
PeriodsAbove95 ==
    {i \in DOMAIN cp_result.forecasts : cp_result.forecasts[i].utilization_rate > 9500}

\* the periods of the returned plan whose utilization_rate is in [80, 95]
PeriodsIn80To95 ==
    {i \in DOMAIN cp_result.forecasts :
        /\ cp_result.forecasts[i].utilization_rate >= 8000
        /\ cp_result.forecasts[i].utilization_rate <= 9500}

\* C17: expansion_plans is never empty, holds at most one plan of each kind
\* in the order critical, high, strategic; the critical plan is there iff
\* some period has utilization_rate > 95, the high plan iff more than 3
\* periods have utilization_rate in [80, 95], each whatever the other; the
\* Monitor-only plan is there iff neither condition holds and the trend is
\* not growing, and then it is the only plan, with investment 0 and
\* capacity_increase 0.
C17_ExpansionPlanKinds ==
    Planned =>
        LET plans == cp_result.expansion_plans
            monitor == PlansWithId("EXP-000-MONITOR")
        IN /\ plans # <<>>
           /\ \A i, j \in DOMAIN plans :
                 i < j => PlanRank(plans[i].plan_id) < PlanRank(plans[j].plan_id)
           /\ PlansWithId("EXP-001-CRITICAL") # {} <=> PeriodsAbove95 # {}
           /\ PlansWithId("EXP-002-HIGH") # {} <=> Cardinality(PeriodsIn80To95) > 3
           /\ monitor # {} <=>
                 /\ PeriodsAbove95 = {}
                 /\ ~(Cardinality(PeriodsIn80To95) > 3)
                 /\ cp_result.trend # "growing"
           /\ \A i \in monitor :
                 /\ Len(plans) = 1
                 /\ plans[i].investment = 0
                 /\ plans[i].capacity_increase = 0

\* C17 witness: a plan whose periods fire the critical and the high
\* condition together, so that both plans are listed, critical first
C17_Witness ==
    /\ Planned
    /\ PeriodsAbove95 # {} /\ Cardinality(PeriodsIn80To95) > 3
    /\ Len(cp_result.expansion_plans) >= 2
    /\ cp_result.expansion_plans[1].plan_id = "EXP-001-CRITICAL"
    /\ cp_result.expansion_plans[2].plan_id = "EXP-002-HIGH"

\* the largest capacity_gap among the periods with utilization_rate > 95
MaxCriticalGap ==
    LET gaps == {cp_result.forecasts[i].capacity_gap : i \in PeriodsAbove95}
    IN CHOOSE g \in gaps : \A h \in gaps : h <= g

\* roi is ratio num / den rounded to 2 decimals, roi held in 1/100
IsRounded(roi, num, den) == 2 * Abs(100 * num - roi * den) <= den

\* C24: a critical plan has capacity_increase equal to the maximum
\* capacity_gap among the periods with utilization_rate > 95, investment
\* equal to that gap x capacity_cost_per_unit, and roi_months equal to
\* investment / (gap x revenue_per_unit), or 999 when gap x revenue_per_unit
\* is 0.
C24_CriticalPlanFigures ==
    Planned =>
        \A i \in PlansWithId("EXP-001-CRITICAL") :
            LET plan == cp_result.expansion_plans[i]
                gap == MaxCriticalGap
                monthly_revenue == gap * cp_args.revenue_per_unit
            IN /\ plan.capacity_increase = gap
               /\ plan.investment = gap * capacity_cost_per_unit
               /\ IF monthly_revenue = 0 THEN plan.roi_months = 99900
                  ELSE IsRounded(plan.roi_months, plan.investment, monthly_revenue)

\* C24 witness: two critical periods with different gaps, the later one the
\* smaller, a positive revenue_per_unit, and the plan sized to the larger
C24_Witness ==
    /\ Planned /\ cp_args.revenue_per_unit > 0
    /\ \E i, j \in PeriodsAbove95 :
          /\ i < j
          /\ cp_result.forecasts[i].capacity_gap > cp_result.forecasts[j].capacity_gap
          /\ cp_result.forecasts[j].capacity_gap > 0
          /\ \E k \in PlansWithId("EXP-001-CRITICAL") :
                /\ cp_result.expansion_plans[k].capacity_increase
                      = cp_result.forecasts[i].capacity_gap
                /\ cp_result.expansion_plans[k].roi_months < 99900

\* none of the critical, high and strategic conditions fires
NothingFired ==
    /\ PeriodsAbove95 = {}
    /\ ~(Cardinality(PeriodsIn80To95) > 3)
    /\ cp_result.trend # "growing"

\* C29: when none of the critical, high and strategic conditions fires,
\* plan_capacity returns the single Monitor-only plan with roi_months 0,
\* total_investment 0 and expected_roi 0, and its recommendations include
\* the ROI message counting 1 plan with ROI under 12 months.
C29_MonitorOnlyResult ==
    (Planned /\ NothingFired) =>
        /\ Len(cp_result.expansion_plans) = 1
        /\ cp_result.expansion_plans[1].plan_id = "EXP-000-MONITOR"
        /\ cp_result.expansion_plans[1].roi_months = 0
        /\ cp_result.total_investment = 0
        /\ cp_result.expected_roi = 0
        /\ CountRecs(cp_result.recommendations, "good_roi", 1) = 1

\* C29 witness: a plan over periods that have a capacity gap, none critical
\* and too few of them high, so that only the Monitor-only plan is returned
C29_Witness ==
    /\ Planned /\ NothingFired
    /\ cp_args.revenue_per_unit > 0
    /\ \E i \in DOMAIN cp_result.forecasts : cp_result.forecasts[i].capacity_gap > 0
    /\ cp_result.expansion_plans[1].plan_id = "EXP-000-MONITOR"
    /\ CountRecs(cp_result.recommendations, "good_roi", 1) = 1

\* C30: whenever plan_capacity returns the Monitor-only plan ("Current
\* capacity is sufficient"), no forecast period of the result has
\* capacity_gap > 0 or investment_needed > 0.
C30_MonitorMeansNoGap ==
    (Planned /\ PlansWithId("EXP-000-MONITOR") # {}) =>
        \A i \in DOMAIN cp_result.forecasts :
            /\ ~(cp_result.forecasts[i].capacity_gap > 0)
            /\ ~(cp_result.forecasts[i].investment_needed > 0)

============================================================================
